---- MODULE Spec2Model ----
(***************************************************************************)
(* Hospital Bed Finder API (src/main.py, src/schemas.py) as a state        *)
(* machine over the document store: the "hospital" and "review"            *)
(* collections, the module-level database handle, and the response of the  *)
(* last request.                                                           *)
(*                                                                         *)
(* Representation of the values the handlers compute with:                 *)
(*   - an ObjectId is [oid |-> n], n >= 1; its 24-hex-digit string form is *)
(*     the token n; the token 0 stands for a string that is no ObjectId;   *)
(*   - latitudes and longitudes are integers in units of 1e-5 degree;      *)
(*     angles in radians are integers in units of 1e-7 rad; haversine      *)
(*     yields metres; a value rounded to 2 decimals of a km is an integer  *)
(*     number of 0.01 km, a score rounded to 3 decimals an integer number  *)
(*     of thousandths, a rating rounded to 1 decimal a number of tenths;   *)
(*   - a Python str is a TLA+ string, its characters given by Chars.       *)
(***************************************************************************)
EXTENDS Integers, Sequences, FiniteSets, TLC

VARIABLES db, hospital, review, resp, lastBeds, pc

vars == <<db, hospital, review, resp, lastBeds, pc>>

---------------------------------------------------------------------------
(* Bounds of the model *)

\* number of distinct outcomes of the random module a seeding may draw
NumStreams == 2
\* bed updates and detail fetches address the hospitals of the first MaxReqId ids
MaxReqId == 2
\* concurrent seed requests
NumSeeders == 2

---------------------------------------------------------------------------
(* Program constants *)

SeedCount == 12
ReviewIdLimit == 12
ListLimit == 100
NearbyLimit == 300
R == 6371
RecommendRadiusKm == 50
TopN == 10
base_lat == 2861390
base_lng == 7720900

specialties_pool ==
    << "Cardiology", "Neurology", "Orthopedics", "Pediatrics", "Oncology",
       "Dermatology", "Emergency", "Gynecology", "Gastroenterology", "Psychiatry" >>

images == << "photo-1586773860418", "photo-1584433144859",
             "photo-1576765608648", "photo-1576091160399" >>

---------------------------------------------------------------------------
(* Python values *)

None == "None"

UpperLetters == << "A","B","C","D","E","F","G","H","I","J","K","L","M",
                   "N","O","P","Q","R","S","T","U","V","W","X","Y","Z" >>
LowerLetters == << "a","b","c","d","e","f","g","h","i","j","k","l","m",
                   "n","o","p","q","r","s","t","u","v","w","x","y","z" >>

\* the characters of the strings that occur as specialties or as queries
Chars(s) ==
    CASE s = "Cardiology"       -> << "C","a","r","d","i","o","l","o","g","y" >>
      [] s = "Neurology"        -> << "N","e","u","r","o","l","o","g","y" >>
      [] s = "Orthopedics"      -> << "O","r","t","h","o","p","e","d","i","c","s" >>
      [] s = "Pediatrics"       -> << "P","e","d","i","a","t","r","i","c","s" >>
      [] s = "Oncology"         -> << "O","n","c","o","l","o","g","y" >>
      [] s = "Dermatology"      -> << "D","e","r","m","a","t","o","l","o","g","y" >>
      [] s = "Emergency"        -> << "E","m","e","r","g","e","n","c","y" >>
      [] s = "Gynecology"       -> << "G","y","n","e","c","o","l","o","g","y" >>
      [] s = "Gastroenterology" -> << "G","a","s","t","r","o","e","n","t","e","r","o","l","o","g","y" >>
      [] s = "Psychiatry"       -> << "P","s","y","c","h","i","a","t","r","y" >>
      [] s = "OLOGY"            -> << "O","L","O","G","Y" >>
      [] s = "pedi"             -> << "p","e","d","i" >>
      [] s = ""                 -> << >>

\* str.lower(), character by character
LowerChar(c) ==
    IF \E k \in 1..Len(UpperLetters) : UpperLetters[k] = c
    THEN LowerLetters[CHOOSE k \in 1..Len(UpperLetters) : UpperLetters[k] = c]
    ELSE c

lower(s) == [k \in 1..Len(Chars(s)) |-> LowerChar(Chars(s)[k])]

\* Python's  a in b  on two character sequences: a is a substring of b
IsSubstring(a, b) ==
    \E off \in 0..(Len(b) - Len(a)) :
        \A k \in 1..Len(a) : b[off + k] = a[k]

\* Python truthiness of an Optional[str]
Truthy(s) == s # None /\ s # ""

\* round(num/den, k) on the scaled integer: nearest, ties to even (den > 0)
RoundDiv(num, den) ==
    LET q == num \div den
        r == num % den
    IN  IF 2 * r > den \/ (2 * r = den /\ q % 2 = 1) THEN q + 1 ELSE q

Max(a, b) == IF a >= b THEN a ELSE b

Abs(x) == IF x < 0 THEN -x ELSE x

Take(seq, n) == SubSeq(seq, 1, IF Len(seq) < n THEN Len(seq) ELSE n)

---------------------------------------------------------------------------
(* bson.ObjectId *)

\* ObjectId(s) succeeds on the string form of an ObjectId, raises InvalidId otherwise
IsObjectIdString(s) == s >= 1

ObjectId(s) == [oid |-> s]

\* str(ObjectId)
str(o) == o.oid

\* main.py:29-39
to_serializable(doc) ==
    [k \in (DOMAIN doc \ {"_id"}) \cup {"id"} |->
        IF k = "id" THEN str(doc["_id"]) ELSE doc[k]]

---------------------------------------------------------------------------
(* schemas.py *)

GeoLocationValid(loc) ==
    /\ loc.lat >= -9000000 /\ loc.lat <= 9000000
    /\ loc.lng >= -18000000 /\ loc.lng <= 18000000

\* field_validator("available_beds") does not raise; info.data holds total_beds
\* (total is not None) when total_beds passed its own validation, ge=0
validate_available_beds(v, total) == ~(total >= 0 /\ v > total)

\* Hospital(...) constructs (does not raise ValidationError)
HospitalValid(h) ==
    /\ GeoLocationValid(h.location)
    /\ h.total_beds >= 0
    /\ h.available_beds >= 0
    /\ validate_available_beds(h.available_beds, h.total_beds)

---------------------------------------------------------------------------
(* The random module: stream s of NumStreams, drawing for hospital i.     *)
(* Every draw lies in the range the call in seed_data gives it.            *)

\* random.randint(50, 300)
DrawTotal(s, i) == IF (i + s) % 2 = 0 THEN 50 ELSE 300

\* random.randint(0, total)
DrawAvailable(s, i, total) ==
    CASE (i \div 2 + s) % 3 = 0 -> 0
      [] (i \div 2 + s) % 3 = 1 -> total
      [] OTHER -> total \div 2

\* random.uniform(-0.2, 0.2), in 1e-5 degree
UniformDraws == << 0, 10000, -10000, 10002, 20000, -20000 >>

DrawLatOffset(s, i) == UniformDraws[((i * s) % Len(UniformDraws)) + 1]

\* the model keeps every hospital on the meridian of base_lng
DrawLngOffset(s, i) == 0

\* random.sample(specialties_pool, k=random.randint(2, 5))
DrawSpecialties(s, i) ==
    LET k == 2 + ((i + s) % 4)
        start == (i * s) % Len(specialties_pool)
    IN  [j \in 1..k |-> specialties_pool[((start + j - 1) % Len(specialties_pool)) + 1]]

\* random.choice(images)
DrawImage(s, i) == images[((i + s) % Len(images)) + 1]

\* random.randint(1, 4) reviews for the h-th listed hospital
DrawReviewCount(s, h) == 1 + ((h + s) % 4)

\* random.randint(3, 5)
DrawRating(s, h, j) == 3 + ((h + j + s) % 3)

\* random.choice([...names...]), random.choice([...comments...])
DrawUser(s, h, j) == << "Aarav", "Vihaan", "Diya", "Sara", "Arjun", "Maya" >>[((h + j + s) % 6) + 1]

DrawComment(s, h, j) ==
    << "Great staff and quick response.", "Clean and well maintained.",
       "Doctors are very attentive.", "Slightly crowded but service is good." >>[((h + 2 * j + s) % 4) + 1]

---------------------------------------------------------------------------
(* database.py: the store *)

\* create_document(collection, data): appends the document under a fresh _id
create_document(coll, data) ==
    Append(coll, [k \in DOMAIN data \cup {"_id"} |->
                    IF k = "_id" THEN ObjectId(Len(coll) + 1) ELSE data[k]])

\* collection.count_documents({})
count_documents(coll) == Len(coll)

---------------------------------------------------------------------------
(* POST /seed *)

\* the Hospital built in iteration i of the loop, main.py:102-112
SeedHospital(s, i) ==
    LET total == DrawTotal(s, i)
    IN  [ name |-> "CityCare Hospital " \o ToString(i + 1),
          address |-> ToString(100 + i) \o ", Healthcare Ave, Sector "
                        \o ToString(i + 2) \o ", Delhi",
          location |-> [lat |-> base_lat + DrawLatOffset(s, i),
                        lng |-> base_lng + DrawLngOffset(s, i)],
          specialties |-> DrawSpecialties(s, i),
          total_beds |-> total,
          available_beds |-> DrawAvailable(s, i, total),
          image_url |-> DrawImage(s, i) ]

\* the loop of main.py:101-113 from iteration i on; a Hospital that does not
\* validate raises and ends the loop
RECURSIVE InsertHospitals(_, _, _)
InsertHospitals(coll, s, i) ==
    IF i >= SeedCount \/ ~HospitalValid(SeedHospital(s, i))
    THEN coll
    ELSE InsertHospitals(create_document(coll, SeedHospital(s, i)), s, i + 1)

\* whether the loop of main.py:101-113 ran to its end
HospitalsInserted(s) == \A i \in 0..(SeedCount - 1) : HospitalValid(SeedHospital(s, i))

\* main.py:116
SeedHospitalIds(hs) ==
    [k \in 1..Len(Take(hs, ReviewIdLimit)) |-> str(hs[k]["_id"])]

\* the inner loop of main.py:118-130 for the h-th id, from review j on
RECURSIVE InsertReviewsOf(_, _, _, _, _)
InsertReviewsOf(coll, s, hid, h, j) ==
    IF j > DrawReviewCount(s, h)
    THEN coll
    ELSE InsertReviewsOf(
            create_document(coll, [ hospital_id |-> hid,
                                    user_name |-> DrawUser(s, h, j),
                                    rating |-> DrawRating(s, h, j),
                                    comment |-> DrawComment(s, h, j) ]),
            s, hid, h, j + 1)

\* the outer loop of main.py:117-130 from the h-th id on
RECURSIVE InsertReviews(_, _, _, _)
InsertReviews(coll, s, ids, h) ==
    IF h > Len(ids)
    THEN coll
    ELSE InsertReviews(InsertReviewsOf(coll, s, ids[h], h, 1), s, ids, h + 1)

Response(op, req, status, body) ==
    [op |-> op, req |-> req, status |-> status, body |-> body]

DbNotConfigured(op, req) == Response(op, req, 500, "Database not configured")

\* the emptiness check compared against the sample size
SeedExistsOverSample(hs) == count_documents(hs) > SeedCount

\* main.py:85: the collection already holds hospitals
SeedExists(hs) == count_documents(hs) > 0

\* seed_data(), the whole handler, with the random module on stream s
seed_data(s) ==
    IF ~db
    THEN /\ resp' = DbNotConfigured("seed", None)
         /\ UNCHANGED <<hospital, review>>
    ELSE IF SeedExists(hospital)
    THEN /\ resp' = Response("seed", None, 200,
                        [status |-> "exists", count |-> count_documents(hospital)])
         /\ UNCHANGED <<hospital, review>>
    ELSE LET hs == InsertHospitals(hospital, s, 0)
         IN  IF ~HospitalsInserted(s)
             THEN /\ hospital' = hs
                  /\ resp' = Response("seed", None, 500, "Internal Server Error")
                  /\ UNCHANGED review
             ELSE /\ hospital' = hs
                  /\ review' = InsertReviews(review, s, SeedHospitalIds(hs), 1)
                  /\ resp' = Response("seed", None, 200,
                                 [status |-> "seeded", count |-> count_documents(hs)])

Seed ==
    /\ \E s \in 1..NumStreams : seed_data(s)
    /\ UNCHANGED <<db, lastBeds, pc>>

---------------------------------------------------------------------------
(* Requests' inputs *)

LatInputs == {base_lat, base_lat + 30000}
LngInputs == {base_lng}
\* radius_km, in metres
RadiusInputs == {25000, 11119}
SpecialtyInputs == {None, "OLOGY", "pedi"}
BedInputs == {-1, 7, 301}

\* specialty.lower() in s.lower(), for every query and every specialty of the pool
LowerContains ==
    [q \in SpecialtyInputs \ {None}, k \in 1..Len(specialties_pool) |->
        IsSubstring(lower(q), lower(specialties_pool[k]))]

PoolIndex(s) == CHOOSE k \in 1..Len(specialties_pool) : specialties_pool[k] = s

---------------------------------------------------------------------------
(* GET /hospitals *)

\* {"$regex": specialty, "$options": "i"} on the array field, for a pattern
\* of letters only
RegexMatchesAny(specialty, h) ==
    \E k \in 1..Len(h.specialties) : LowerContains[specialty, PoolIndex(h.specialties[k])]

\* db["hospital"].find(query), in the collection's order
FindHospitals(specialty) ==
    LET Kept[n \in 0..Len(hospital)] ==
            IF n = 0 THEN << >>
            ELSE Kept[n - 1] \o
                 (IF ~Truthy(specialty) \/ RegexMatchesAny(specialty, hospital[n])
                  THEN <<hospital[n]>> ELSE << >>)
    IN  Kept[Len(hospital)]

MapSerializable(docs) == [k \in 1..Len(docs) |-> to_serializable(docs[k])]

list_hospitals(specialty) ==
    IF ~db THEN DbNotConfigured("list", [specialty |-> specialty])
    ELSE Response("list", [specialty |-> specialty], 200,
                  MapSerializable(Take(FindHospitals(specialty), ListLimit)))

---------------------------------------------------------------------------
(* GET /hospitals/nearby *)

\* math.radians: 1e-5 degree to 1e-7 rad
radians(x) == IF x >= 0 THEN (x * 17453) \div 10000 ELSE -(((-x) * 17453) \div 10000)

\* main.py:156-163 for two points of one meridian (lon1 = lon2), where
\* a = sin(dlat/2)**2 and c = 2*asin(sqrt(a)) = |dlat|; metres
haversine(lat1, lon1, lat2, lon2) ==
    LET dlat == radians(lat2 - lat1)
        c == Abs(dlat)
    IN  (R * c) \div 10000

\* round(d_km, 2): metres to 0.01 km
RoundKm2(d) == RoundDiv(d, 10)

\* main.py:167-174: the specialty filter lets h through
HasSpecialty(specialty, h) ==
    IF Truthy(specialty)
    THEN \E k \in 1..Len(h.specialties) :
            LowerContains[specialty, PoolIndex(h.specialties[k])]
    ELSE TRUE

\* main.py:176: distance of h from the origin, metres
DistanceOf(lat, lng, h) == haversine(lat, lng, h.location.lat, h.location.lng)

\* the radius taken as an open bound
WithinRadiusStrict(d_km, radius_km) == d_km < radius_km

\* main.py:177: h is within the radius (radius_km in metres)
WithinRadius(d_km, radius_km) == d_km <= radius_km

\* main.py:178-179
WithDistance(h, d_km) ==
    to_serializable([k \in DOMAIN h \cup {"distance_km"} |->
                        IF k = "distance_km" THEN RoundKm2(d_km) ELSE h[k]])

\* main.py:182: the sort key of a orders before the sort key of b
NearbyBefore(a, b) ==
    \/ a.distance_km < b.distance_km
    \/ (a.distance_km = b.distance_km /\ -a.available_beds < -b.available_beds)

\* list.sort is stable: x goes into the sorted list after every element
\* whose key is not after its own
NearbyInsert(sorted, x) ==
    LET later == {k \in 1..Len(sorted) : NearbyBefore(x, sorted[k])}
        pos == IF later = {} THEN Len(sorted) + 1
               ELSE CHOOSE k \in later : \A m \in later : k <= m
    IN  SubSeq(sorted, 1, pos - 1) \o <<x>> \o SubSeq(sorted, pos, Len(sorted))

\* main.py:182
NearbySort(results) ==
    LET Sorted[n \in 0..Len(results)] ==
            IF n = 0 THEN << >> ELSE NearbyInsert(Sorted[n - 1], results[n])
    IN  Sorted[Len(results)]

\* main.py:165-179: the results list when the loop ends
NearbyScan(lat, lng, radius_km, specialty) ==
    LET scanned == Take(hospital, NearbyLimit)
        Results[n \in 0..Len(scanned)] ==
            IF n = 0 THEN << >>
            ELSE IF /\ HasSpecialty(specialty, scanned[n])
                    /\ WithinRadius(DistanceOf(lat, lng, scanned[n]), radius_km)
                 THEN Append(Results[n - 1],
                             WithDistance(scanned[n], DistanceOf(lat, lng, scanned[n])))
                 ELSE Results[n - 1]
    IN  Results[Len(scanned)]

\* main.py:165-183 past the db check
NearbyResults(lat, lng, radius_km, specialty) ==
    NearbySort(NearbyScan(lat, lng, radius_km, specialty))

NearbyReq(lat, lng, radius_km, specialty) ==
    [lat |-> lat, lng |-> lng, radius_km |-> radius_km, specialty |-> specialty]

hospitals_nearby(lat, lng, radius_km, specialty) ==
    IF ~db THEN DbNotConfigured("nearby", NearbyReq(lat, lng, radius_km, specialty))
    ELSE Response("nearby", NearbyReq(lat, lng, radius_km, specialty), 200,
                  NearbyResults(lat, lng, radius_km, specialty))

---------------------------------------------------------------------------
(* Exceptions *)

\* the classes  except Exception  catches: bson.errors.InvalidId and
\* fastapi.HTTPException both derive from Exception
CaughtByExceptException(cls) == cls \in {"InvalidId", "HTTPException"}

\* main.py:203-204, 229-230: what leaves the try statement when its body
\* raised cls with the given status
StatusAfterExcept(cls, status) == IF CaughtByExceptException(cls) THEN 400 ELSE status

---------------------------------------------------------------------------
(* GET /hospitals/{hospital_id} and /hospitals/{hospital_id}/reviews *)

\* find_one({"_id": oid}): the sequence of documents found, at most one
FindById(oid) ==
    LET Found[n \in 0..Len(hospital)] ==
            IF n = 0 THEN << >>
            ELSE Found[n - 1] \o (IF hospital[n]["_id"] = oid THEN <<hospital[n]>> ELSE << >>)
    IN  Take(Found[Len(hospital)], 1)

\* db["review"].find({"hospital_id": hospital_id})
ReviewsOf(hospital_id) ==
    LET Found[n \in 0..Len(review)] ==
            IF n = 0 THEN << >>
            ELSE Found[n - 1] \o
                 (IF review[n].hospital_id = hospital_id THEN <<review[n]>> ELSE << >>)
    IN  Found[Len(review)]

RECURSIVE SumRatings(_)
SumRatings(rs) == IF rs = << >> THEN 0 ELSE Head(rs).rating + SumRatings(Tail(rs))

\* round(sum/len, 1), in tenths
AvgRating1(rs) == RoundDiv(10 * SumRatings(rs), Len(rs))

\* main.py:199-202
Detail(doc, reviews) ==
    LET d == to_serializable(doc)
    IN  [k \in DOMAIN d \cup {"avg_rating", "reviews_count"} |->
            IF k = "avg_rating" THEN (IF Len(reviews) > 0 THEN AvgRating1(reviews) ELSE None)
            ELSE IF k = "reviews_count" THEN Len(reviews)
            ELSE d[k]]

get_hospital(hospital_id) ==
    LET req == [hospital_id |-> hospital_id]
    IN  IF ~db THEN DbNotConfigured("detail", req)
        ELSE IF ~IsObjectIdString(hospital_id)
        THEN Response("detail", req, StatusAfterExcept("InvalidId", 500), "Invalid hospital id")
        ELSE IF FindById(ObjectId(hospital_id)) = << >>
        THEN Response("detail", req, StatusAfterExcept("HTTPException", 404), "Invalid hospital id")
        ELSE Response("detail", req, 200,
                 Detail(FindById(ObjectId(hospital_id))[1], ReviewsOf(hospital_id)))

hospital_reviews(hospital_id) ==
    IF ~db THEN DbNotConfigured("reviews", [hospital_id |-> hospital_id])
    ELSE Response("reviews", [hospital_id |-> hospital_id], 200,
                  MapSerializable(Take(ReviewsOf(hospital_id), ListLimit)))

---------------------------------------------------------------------------
(* POST /hospitals/{hospital_id}/beds *)

\* an update whose filter is dropped: the first document is the one updated
SetAvailableBedsOfFirst(hs, oid, n) ==
    IF hs = << >> THEN hs ELSE [hs EXCEPT ![1].available_beds = n]

\* an update that also raises total_beds to the new value
SetAvailableBedsAndTotal(hs, oid, n) ==
    [k \in 1..Len(hs) |->
        IF hs[k]["_id"] = oid
        THEN [hs[k] EXCEPT !.available_beds = n, !.total_beds = Max(n, hs[k].total_beds)]
        ELSE hs[k]]

\* update_one({"_id": oid}, {"$set": {"available_beds": n}}): the collection after it
SetAvailableBeds(hs, oid, n) ==
    LET hit == {k \in 1..Len(hs) : hs[k]["_id"] = oid}
    IN  IF hit = {} THEN hs
        ELSE LET first == CHOOSE k \in hit : \A m \in hit : k <= m
             IN  [hs EXCEPT ![first].available_beds = n]

\* res.matched_count
MatchedCount(hs, oid) == IF \E k \in 1..Len(hs) : hs[k]["_id"] = oid THEN 1 ELSE 0

\* the status update_beds answers with, past the db check
UpdateBedsStatus(hs, hospital_id) ==
    IF ~IsObjectIdString(hospital_id) THEN StatusAfterExcept("InvalidId", 500)
    ELSE IF MatchedCount(hs, ObjectId(hospital_id)) = 0
    THEN StatusAfterExcept("HTTPException", 404)
    ELSE 200

update_beds(hospital_id, available_beds) ==
    LET req == [hospital_id |-> hospital_id, available_beds |-> available_beds]
    IN  IF ~db
        THEN /\ resp' = DbNotConfigured("update_beds", req)
             /\ UNCHANGED <<hospital, lastBeds>>
        ELSE IF ~IsObjectIdString(hospital_id)
        THEN /\ resp' = Response("update_beds", req, UpdateBedsStatus(hospital, hospital_id),
                                 "Invalid hospital id")
             /\ UNCHANGED <<hospital, lastBeds>>
        ELSE /\ hospital' = SetAvailableBeds(hospital, ObjectId(hospital_id), available_beds)
             /\ IF MatchedCount(hospital, ObjectId(hospital_id)) = 0
                THEN /\ resp' = Response("update_beds", req,
                                    UpdateBedsStatus(hospital, hospital_id), "Invalid hospital id")
                     /\ UNCHANGED lastBeds
                ELSE /\ resp' = Response("update_beds", req,
                                    UpdateBedsStatus(hospital, hospital_id), [status |-> "ok"])
                     /\ lastBeds' = (hospital_id :> available_beds) @@ lastBeds

---------------------------------------------------------------------------
(* GET /recommend *)

\* round(avail_ratio * 0.6 + (rating / 5) * 0.4, 3), in thousandths:
\* avail_ratio = a / max(1, t), rating = sum / n (0 without reviews), so
\* score = (15*a*n + 2*sum*T) / (25*T*n) with T = max(1, t)
Score(h, reviews) ==
    LET a == h.available_beds
        T == Max(1, h.total_beds)
        n == IF Len(reviews) > 0 THEN Len(reviews) ELSE 1
        sum == SumRatings(reviews)
    IN  RoundDiv(40 * (15 * a * n + 2 * sum * T), T * n)

\* main.py:244-252
Scored(h) ==
    LET reviews == ReviewsOf(h.id)
    IN  [k \in DOMAIN h \cup {"score", "avg_rating"} |->
            IF k = "score" THEN Score(h, reviews)
            ELSE IF k = "avg_rating"
                 THEN (IF Len(reviews) > 0 THEN AvgRating1(reviews) ELSE None)
            ELSE h[k]]

\* main.py:253: the sort key -score of a orders before that of b
ScoreBefore(a, b) == -a.score < -b.score

\* list.sort is stable, as in NearbyInsert
ScoreInsert(sorted, x) ==
    LET later == {k \in 1..Len(sorted) : ScoreBefore(x, sorted[k])}
        pos == IF later = {} THEN Len(sorted) + 1
               ELSE CHOOSE k \in later : \A m \in later : k <= m
    IN  SubSeq(sorted, 1, pos - 1) \o <<x>> \o SubSeq(sorted, pos, Len(sorted))

\* main.py:253
ScoreSort(scored) ==
    LET Sorted[n \in 0..Len(scored)] ==
            IF n = 0 THEN << >> ELSE ScoreInsert(Sorted[n - 1], scored[n])
    IN  Sorted[Len(scored)]

\* the cut taken before the sort
TopScoredCutFirst(scored) == ScoreSort(Take(scored, TopN))

\* main.py:253-254
TopScored(scored) == Take(ScoreSort(scored), TopN)

RecommendResults(lat, lng, specialty) ==
    LET nearby == NearbyResults(lat, lng, RecommendRadiusKm * 1000, specialty)
    IN  TopScored([k \in 1..Len(nearby) |-> Scored(nearby[k])])

recommend(lat, lng, specialty) ==
    LET req == [lat |-> lat, lng |-> lng, specialty |-> specialty]
    IN  IF hospitals_nearby(lat, lng, RecommendRadiusKm * 1000, specialty).status # 200
        THEN DbNotConfigured("recommend", req)
        ELSE Response("recommend", req, 200, RecommendResults(lat, lng, specialty))

---------------------------------------------------------------------------
(* Requests *)

\* 0: no ObjectId string; the ids of the first hospitals; an id no hospital has
IdInputs == (0..MaxReqId) \cup {Len(hospital) + 1}

Seeders == 1..NumSeeders

Init ==
    /\ db \in BOOLEAN
    /\ hospital = << >>
    /\ review = << >>
    /\ resp = Response("none", None, 0, None)
    /\ lastBeds = << >>
    /\ pc = [p \in Seeders |-> "idle"]

ListHospitals ==
    /\ \E specialty \in SpecialtyInputs : resp' = list_hospitals(specialty)
    /\ UNCHANGED <<db, hospital, review, lastBeds, pc>>

HospitalsNearby ==
    /\ \E lat \in LatInputs, lng \in LngInputs, radius_km \in RadiusInputs,
          specialty \in SpecialtyInputs :
            resp' = hospitals_nearby(lat, lng, radius_km, specialty)
    /\ UNCHANGED <<db, hospital, review, lastBeds, pc>>

GetHospital ==
    /\ \E hospital_id \in IdInputs : resp' = get_hospital(hospital_id)
    /\ UNCHANGED <<db, hospital, review, lastBeds, pc>>

HospitalReviews ==
    /\ \E hospital_id \in IdInputs : resp' = hospital_reviews(hospital_id)
    /\ UNCHANGED <<db, hospital, review, lastBeds, pc>>

UpdateBeds ==
    /\ \E hospital_id \in IdInputs, available_beds \in BedInputs :
            update_beds(hospital_id, available_beds)
    /\ UNCHANGED <<db, review, pc>>

Recommend ==
    /\ \E lat \in LatInputs, lng \in LngInputs, specialty \in SpecialtyInputs :
            resp' = recommend(lat, lng, specialty)
    /\ UNCHANGED <<db, hospital, review, lastBeds, pc>>

Next ==
    \/ Seed
    \/ ListHospitals
    \/ HospitalsNearby
    \/ GetHospital
    \/ HospitalReviews
    \/ UpdateBeds
    \/ Recommend

\* requests served one at a time
Spec == Init /\ [][Next]_vars

---------------------------------------------------------------------------
(* Concurrent seed requests: each of NumSeeders clients sends seed         *)
(* requests one after the other; each database call of seed_data is        *)
(* atomic, the calls of different requests interleave.  The two loops are  *)
(* taken as one step each, which leaves out interleavings but adds none.   *)

\* main.py:82-86
SeedCheck(p) ==
    /\ pc[p] = "idle"
    /\ IF ~db
       THEN /\ resp' = DbNotConfigured("seed", None)
            /\ UNCHANGED pc
       ELSE IF SeedExists(hospital)
       THEN /\ resp' = Response("seed", None, 200,
                           [status |-> "exists", count |-> count_documents(hospital)])
            /\ UNCHANGED pc
       ELSE /\ pc' = [pc EXCEPT ![p] = "insert"]
            /\ UNCHANGED resp
    /\ UNCHANGED <<db, hospital, review, lastBeds>>

\* main.py:101-113
SeedInsertHospitals(p) ==
    /\ pc[p] = "insert"
    /\ \E s \in 1..NumStreams :
        /\ hospital' = InsertHospitals(hospital, s, 0)
        /\ IF HospitalsInserted(s)
           THEN /\ pc' = [pc EXCEPT ![p] = "reviews"]
                /\ UNCHANGED resp
           ELSE /\ pc' = [pc EXCEPT ![p] = "idle"]
                /\ resp' = Response("seed", None, 500, "Internal Server Error")
    /\ UNCHANGED <<db, review, lastBeds>>

\* main.py:116-132
SeedInsertReviews(p) ==
    /\ pc[p] = "reviews"
    /\ \E s \in 1..NumStreams :
        review' = InsertReviews(review, s, SeedHospitalIds(hospital), 1)
    /\ resp' = Response("seed", None, 200,
                   [status |-> "seeded", count |-> count_documents(hospital)])
    /\ pc' = [pc EXCEPT ![p] = "idle"]
    /\ UNCHANGED <<db, hospital, lastBeds>>

NextConc ==
    \E p \in Seeders :
        \/ SeedCheck(p)
        \/ SeedInsertHospitals(p)
        \/ SeedInsertReviews(p)

SpecConc == Init /\ [][NextConc]_vars

---------------------------------------------------------------------------
(* Properties *)

ReadOps == {"list", "nearby", "detail", "reviews", "recommend"}

\* the hospital with the id string s is in the store
Stored(s) == \E k \in 1..Len(hospital) : str(hospital[k]["_id"]) = s

IndexOf(s) == CHOOSE k \in 1..Len(hospital) : str(hospital[k]["_id"]) = s

Ids(body) == {body[k].id : k \in 1..Len(body)}

\* C1: update beds with a well-formed id that matches no hospital answers
\* 404 NotFound (not the 400 of a malformed id).
C1_UpdateAbsentIs404 ==
    ( /\ db
      /\ resp.op = "update_beds"
      /\ IsObjectIdString(resp.req.hospital_id)
      /\ ~Stored(resp.req.hospital_id) )
    => resp.status = 404

\* C2: hospital detail with a well-formed id that matches no hospital answers
\* 404 NotFound, and with a malformed id 400 InvalidId.
C2_DetailAbsentIs404 ==
    (db /\ resp.op = "detail") =>
        /\ (~IsObjectIdString(resp.req.hospital_id) => resp.status = 400)
        /\ ( (IsObjectIdString(resp.req.hospital_id) /\ ~Stored(resp.req.hospital_id))
                => resp.status = 404 )

\* C3: every stored hospital has 0 <= available_beds <= total_beds.
C3_BedsWithinCapacity ==
    \A k \in 1..Len(hospital) :
        /\ 0 <= hospital[k].available_beds
        /\ hospital[k].available_beds <= hospital[k].total_beds

\* C4: every result of recommend has a score in [0,1] (0..1000 thousandths),
\* and a hospital with 0 available beds and no reviews has score 0.
C4_ScoreInUnitRange ==
    (resp.op = "recommend" /\ resp.status = 200) =>
        \A k \in 1..Len(resp.body) :
            /\ 0 <= resp.body[k].score
            /\ resp.body[k].score <= 1000
            /\ ( (resp.body[k].available_beds = 0 /\ ReviewsOf(resp.body[k].id) = << >>)
                    => resp.body[k].score = 0 )

\* C5: with the database configured, a seed request on an empty hospital
\* collection inserts the SeedCount sample hospitals and reports them; a seed
\* request on a collection that holds hospitals inserts nothing, changes
\* neither collection and reports the existing count.
C5_SeedIdempotent ==
    [][ (db /\ resp'.op = "seed") =>
            IF Len(hospital) = 0
            THEN /\ Len(hospital') = SeedCount
                 /\ resp'.status = 200
                 /\ resp'.body = [status |-> "seeded", count |-> SeedCount]
            ELSE /\ hospital' = hospital
                 /\ review' = review
                 /\ resp'.status = 200
                 /\ resp'.body = [status |-> "exists", count |-> Len(hospital)]
      ]_vars

\* a later seed request was answered while the sample hospitals were stored
C5_Witness ==
    /\ resp.op = "seed" /\ resp.status = 200
    /\ resp.body.status = "exists"
    /\ Len(hospital) = SeedCount

\* C6: a detail fetch of a hospital whose beds were last successfully set to
\* n returns available_beds = n.
C6_UpdateReflectedInDetail ==
    ( /\ resp.op = "detail" /\ resp.status = 200
      /\ resp.req.hospital_id \in DOMAIN lastBeds )
    => resp.body.available_beds = lastBeds[resp.req.hospital_id]

\* a detail fetch after an update that changed the hospital's beds
C6_Witness ==
    /\ resp.op = "detail" /\ resp.status = 200
    /\ resp.req.hospital_id \in DOMAIN lastBeds
    /\ resp.body.available_beds = 301

\* the hospitals nearby search is to return: scanned, passing the specialty
\* filter, at a distance <= radius_km from the origin
NearbyExpected(req) ==
    { str(hospital[k]["_id"]) : k \in
        { k \in 1..Len(Take(hospital, NearbyLimit)) :
            /\ ( Truthy(req.specialty) =>
                    \E j \in 1..Len(hospital[k].specialties) :
                        IsSubstring(lower(req.specialty), lower(hospital[k].specialties[j])) )
            /\ DistanceOf(req.lat, req.lng, hospital[k]) <= req.radius_km } }

\* body is sorted ascending by attached distance, ties by descending available_beds
NearbySorted(body) ==
    \A k \in 1..Len(body), m \in 1..Len(body) :
        k < m =>
            \/ body[k].distance_km < body[m].distance_km
            \/ ( /\ body[k].distance_km = body[m].distance_km
                 /\ body[k].available_beds >= body[m].available_beds )

NearbyExact(r) ==
    /\ Ids(r.body) = NearbyExpected(r.req)
    /\ Len(r.body) = Cardinality(Ids(r.body))

C8_TopByScore ==
    (resp.op = "recommend" /\ resp.status = 200) =>
        LET nearby == NearbyResults(resp.req.lat, resp.req.lng,
                                    RecommendRadiusKm * 1000, resp.req.specialty)
            body == resp.body
        IN  /\ Len(body) <= TopN
            /\ Len(body) = Cardinality(Ids(body))
            /\ Ids(body) \subseteq Ids(nearby)
            /\ (Len(nearby) >= TopN => Len(body) = TopN)
            /\ \A k \in 1..Len(body), m \in 1..Len(body) :
                    k < m => body[k].score >= body[m].score
            /\ \A j \in 1..Len(nearby) :
                    nearby[j].id \notin Ids(body) =>
                        \A k \in 1..Len(body) :
                            Score(nearby[j], ReviewsOf(nearby[j].id)) <= body[k].score

\* a recommend result cut to TopN, with results of different scores
C8_Witness ==
    /\ resp.op = "recommend" /\ resp.status = 200
    /\ Len(resp.body) = TopN
    /\ Len(NearbyResults(resp.req.lat, resp.req.lng, RecommendRadiusKm * 1000,
                         resp.req.specialty)) > TopN
    /\ resp.body[1].score > resp.body[TopN].score

\* C9: a successful update beds changes the available_beds field of the
\* hospital of its id and nothing else; a failed update beds and every read
\* operation leave both collections unchanged.
C9_Frame ==
    [][ /\ db' = db
        /\ resp'.op \in ReadOps => (hospital' = hospital /\ review' = review)
        /\ resp'.op = "update_beds" =>
            /\ review' = review
            /\ IF resp'.status = 200
               THEN /\ Stored(resp'.req.hospital_id)
                    /\ hospital' = [hospital EXCEPT
                            ![IndexOf(resp'.req.hospital_id)].available_beds =
                                resp'.req.available_beds]
               ELSE hospital' = hospital
      ]_vars

\* an update beds succeeded and the hospital's beds are the value it gave
C9_Witness ==
    /\ resp.op = "update_beds" /\ resp.status = 200
    /\ resp.req.available_beds = 301
    /\ hospital[IndexOf(resp.req.hospital_id)].available_beds = 301

\* C10: under concurrent seed requests the hospital collection never holds
\* more than the SeedCount hospitals of one seeding.
C10_SeededOnce == Len(hospital) <= SeedCount

====
